---- MODULE Spec2Model ----
(***************************************************************************)
(* Sidecar process supervisor of the Sandcastle desktop application        *)
(* (apps/desktop/src-tauri/src/sidecar.rs, called from lib.rs).            *)
(*                                                                         *)
(* SidecarState owns two independently locked cells, `child` and `port`.   *)
(* start() keeps the guard of the `child` mutex from its first line until  *)
(* it returns, across the wait for the port announcement and across the    *)
(* health polling; stop() takes the same mutex; get_port() only takes the  *)
(* `port` mutex, for the duration of one read.                             *)
(***************************************************************************)
EXTENDS Integers, Sequences, FiniteSets, TLC

\* ------------------------------------------------------------------------
\* Option<T>: None is the empty tuple, Some(x) the one-element tuple.
None == <<>>
Some(x) == <<x>>
Unwrap(o) == o[1]

\* ------------------------------------------------------------------------
\* Bounds of the model.
MaxSpawns == 2
MaxEvents == 2

\* Program constants (sidecar.rs:8-10).
HEALTH_CHECK_MAX_ATTEMPTS == 50
HEALTH_CHECK_DELAY_MS == 100
PORT_PARSE_TIMEOUT_MS == 10000
U16_MAX == 65535

\* The tasks that call into the supervisor: the launch-time task and the
\* window-event task of lib.rs, or two front-end callers.
Procs == {"t1", "t2"}

\* ------------------------------------------------------------------------
\* Text of the child's output.  A line is a tuple of one-character strings.
PORT_PREFIX ==
    <<"S","A","N","D","C","A","S","T","L","E","_",
      "S","E","R","V","E","R","_","P","O","R","T","=">>

\* char::is_whitespace, the characters str::trim removes: the Unicode
\* White_Space set.  A character that a string of this language cannot
\* hold is written as the name of its code point.
Whitespace ==
    { "\t", "\n", "U+000B", "\f", "\r", " ", "U+0085", "U+00A0", "U+1680",
      "U+2000", "U+2001", "U+2002", "U+2003", "U+2004", "U+2005", "U+2006",
      "U+2007", "U+2008", "U+2009", "U+200A", "U+2028", "U+2029", "U+202F",
      "U+205F", "U+3000" }

DigitVal ==
    [c \in {"0","1","2","3","4","5","6","7","8","9"} |->
        CASE c = "0" -> 0 [] c = "1" -> 1 [] c = "2" -> 2 [] c = "3" -> 3
          [] c = "4" -> 4 [] c = "5" -> 5 [] c = "6" -> 6 [] c = "7" -> 7
          [] c = "8" -> 8 [] c = "9" -> 9]

\* str::strip_prefix: Some(rest) when the line starts with the prefix.
StripPrefix(line, prefix) ==
    IF Len(line) >= Len(prefix) /\ SubSeq(line, 1, Len(prefix)) = prefix
    THEN Some(SubSeq(line, Len(prefix) + 1, Len(line)))
    ELSE None

RECURSIVE TrimStart(_)
TrimStart(s) ==
    IF s # <<>> /\ Head(s) \in Whitespace THEN TrimStart(Tail(s)) ELSE s

RECURSIVE TrimEnd(_)
TrimEnd(s) ==
    IF s # <<>> /\ s[Len(s)] \in Whitespace
    THEN TrimEnd(SubSeq(s, 1, Len(s) - 1))
    ELSE s

\* str::trim: whitespace removed at both ends.
Trim(s) == TrimEnd(TrimStart(s))

\* Variant of ParseDigits with wrapping instead of checked arithmetic.
RECURSIVE ParseDigitsWrapping(_, _)
ParseDigitsWrapping(s, acc) ==
    IF s = <<>> THEN Some(acc)
    ELSE IF Head(s) \notin DOMAIN DigitVal THEN None
    ELSE ParseDigitsWrapping(Tail(s),
                             (acc * 10 + DigitVal[Head(s)]) % (U16_MAX + 1))

\* Digit accumulation of u16::from_str: an invalid digit or a value above
\* u16::MAX is an error (None).
RECURSIVE ParseDigits(_, _)
ParseDigits(s, acc) ==
    IF s = <<>> THEN Some(acc)
    ELSE IF Head(s) \notin DOMAIN DigitVal THEN None
    ELSE LET v == acc * 10 + DigitVal[Head(s)]
         IN  IF v > U16_MAX THEN None ELSE ParseDigits(Tail(s), v)

\* str::parse::<u16>: empty text and a lone sign are errors, one leading
\* "+" is accepted, "-" is not a digit of an unsigned type.
ParseU16(s) ==
    IF s = <<>> THEN None
    ELSE IF s = <<"+">> \/ s = <<"-">> THEN None
    ELSE IF Head(s) = "+" THEN ParseDigits(Tail(s), 0)
    ELSE ParseDigits(s, 0)

\* The matcher of the reader task (sidecar.rs:96-97): line -> Option<u16>.
ParsePortLine(line) ==
    LET rest == StripPrefix(line, PORT_PREFIX)
    IN  IF rest = None THEN None ELSE ParseU16(Trim(Unwrap(rest)))

\* Standard-output lines the child may print.
Lines ==
    { PORT_PREFIX \o <<"3","1","8","2","2">>,
      PORT_PREFIX \o <<" ","8","0","8","0","\n">>,
      PORT_PREFIX \o <<"n","o","t","a","n","u","m","b","e","r">>,
      PORT_PREFIX \o <<"6","5","5","3","6">>,
      PORT_PREFIX \o <<"-","1">>,
      PORT_PREFIX,
      PORT_PREFIX \o <<"+","8","0","8","0">>,
      <<" ">> \o PORT_PREFIX \o <<"3","1","8","2","2">>,
      PORT_PREFIX \o <<"8","0","8","0","\f">>,
      PORT_PREFIX \o <<"U+00A0","8","0","8","0","U+000B">>,
      PORT_PREFIX \o <<"8","0","8","0","U+200B">>,
      <<"l","i","s","t","e","n","i","n","g">> }

\* Events of the child that are not standard-output lines
\* (CommandEvent::Stderr, CommandEvent::Error, any other variant).
OtherEvents == {"Stderr", "Error", "Other"}

\* ------------------------------------------------------------------------
\* Results returned to callers.
ERR_PORT_UNKNOWN == "Server running but port unknown"
ERR_RESOURCE_MISSING == "Server bundle not found"
ERR_SPAWN_FAILED == "Failed to spawn sidecar"
ERR_TIMEOUT == "Timeout waiting for server to report port"
ERR_RECV_FAILED == "Failed to receive port from server"
ERR_HEALTH == "Server failed to respond to health check within 5000ms"
ERR_KILL == "kill failed"
ERR_CLIENT_BUILD == "builder error"

NoRet == [op |-> "none", ok |-> FALSE, val |-> None, err |-> ""]
Ok(o, v) == [op |-> o, ok |-> TRUE, val |-> v, err |-> ""]
Err(o, e) == [op |-> o, ok |-> FALSE, val |-> None, err |-> e]

VARIABLES
    child,      \* SidecarState.child: Option<CommandChild>, a child id
    port,       \* SidecarState.port: Option<u16>
    lock,       \* holder of the `child` mutex guard: Option<task>
    pc,         \* position of each calling task
    ret,        \* value returned by the last call each task completed
    spawned,    \* number of child processes spawned so far
    killed,     \* ids of the children that were sent the kill signal
    reader,     \* reader task of the latest child: state, events seen and
                \* the parsed port it is about to send
    portTx,     \* Option<Sender> shared through the Arc<Mutex<..>>
    txRefs,     \* live Arc references to that cell (start's and reader's)
    chan,       \* value in flight in the one-shot channel
    localPort,  \* `port` local of the start that is health checking
    attempt,    \* loop counter of wait_for_ready
    announced,  \* valid ports the latest child has printed
    healthy,    \* ids of the children that answered a probe successfully
    log,        \* events the reader of the latest child received, kept
                \* only by the specification of the reader (SpecReader)
    probes      \* probes issued by the latest wait_for_ready, by outcome,
                \* kept only by the specification of the poller (SpecHealth)

vars == <<child, port, lock, pc, ret, spawned, killed, reader, portTx,
          txRefs, chan, localPort, attempt, announced, healthy, log,
          probes>>

\* SidecarState::new and no task inside a call.
Init ==
    /\ child = None
    /\ port = None
    /\ lock = None
    /\ pc = [p \in Procs |-> "idle"]
    /\ ret = [p \in Procs |-> NoRet]
    /\ spawned = 0
    /\ killed = {}
    /\ reader = [state |-> "none", n |-> 0, pend |-> None]
    /\ portTx = "None"
    /\ txRefs = 0
    /\ chan = None
    /\ localPort = None
    /\ attempt = 0
    /\ announced = {}
    /\ healthy = {}
    /\ log = <<>>
    /\ probes = [ok |-> 0, failed |-> 0]

\* The receiver of the one-shot channel exists while a start awaits it.
RxAlive == \E p \in Procs : pc[p] = "start_await"

\* The Sender is dropped unsent once no Arc reference to its cell is left.
SenderDropped == portTx = "Some" /\ txRefs = 0

\* A call returns: the task is idle again and holds its result.
Return(p, r) ==
    /\ pc' = [pc EXCEPT ![p] = "idle"]
    /\ ret' = [ret EXCEPT ![p] = r]

\* ------------------------------------------------------------------------
\* get_port (sidecar.rs:32-34, called by get_server_port, lib.rs:19-21).

\* A task calls get_port and queues on the `port` mutex (line 33).
CallGetPort(p) ==
    /\ pc[p] = "idle"
    /\ pc' = [pc EXCEPT ![p] = "get_port"]
    /\ ret' = [ret EXCEPT ![p] = NoRet]
    /\ UNCHANGED <<child, port, lock, spawned, killed, reader, portTx,
                   txRefs, chan, localPort, attempt, announced, healthy>>
    /\ UNCHANGED <<log, probes>>

\* Line 33: one read of the `port` cell, returned to the caller.
GetPort(p) ==
    /\ pc[p] = "get_port"
    /\ Return(p, Ok("get_port", port))
    /\ UNCHANGED <<child, port, lock, spawned, killed, reader, portTx,
                   txRefs, chan, localPort, attempt, announced, healthy>>
    /\ UNCHANGED <<log, probes>>

\* ------------------------------------------------------------------------
\* start (sidecar.rs:37-136).

\* A task calls start and queues on the `child` mutex (line 38).
CallStart(p) ==
    /\ pc[p] = "idle"
    /\ pc' = [pc EXCEPT ![p] = "start_lock"]
    /\ ret' = [ret EXCEPT ![p] = NoRet]
    /\ UNCHANGED <<child, port, lock, spawned, killed, reader, portTx,
                   txRefs, chan, localPort, attempt, announced, healthy>>
    /\ UNCHANGED <<log, probes>>

\* Variant of AlreadyRunning that consults the port cell instead of the
\* child handle.
AlreadyRunningByPort == port # None

\* child_guard.is_some() (line 40).
AlreadyRunning == child # None

\* Lines 38-45: the guard is acquired and a handle found held; start then
\* queues on the `port` mutex (line 45) with the guard still held.
StartExisting(p) ==
    /\ pc[p] = "start_lock"
    /\ lock = None
    /\ AlreadyRunning
    /\ lock' = Some(p)
    /\ pc' = [pc EXCEPT ![p] = "start_port"]
    /\ UNCHANGED <<child, port, ret, spawned, killed, reader, portTx,
                   txRefs, chan, localPort, attempt, announced, healthy>>
    /\ UNCHANGED <<log, probes>>

\* Lines 42-46: the port cell is read; the recorded port, or the error
\* when no port was recorded, is returned, which drops the guard.
StartExistingReturn(p) ==
    /\ pc[p] = "start_port"
    /\ Return(p, IF port = None THEN Err("start", ERR_PORT_UNKNOWN)
                 ELSE Ok("start", port))
    /\ lock' = None
    /\ UNCHANGED <<child, port, spawned, killed, reader, portTx,
                   txRefs, chan, localPort, attempt, announced, healthy>>
    /\ UNCHANGED <<log, probes>>

\* Variant of StartResourceMissing that looks for the bundle only after
\* the sidecar has been spawned and its handle stored.
StartResourceMissingAfterSpawn(p) ==
    /\ pc[p] = "start_lock"
    /\ lock = None
    /\ ~AlreadyRunning
    /\ spawned < MaxSpawns
    /\ spawned' = spawned + 1
    /\ child' = Some(spawned + 1)
    /\ Return(p, Err("start", ERR_RESOURCE_MISSING))
    /\ UNCHANGED <<port, lock, killed, reader, portTx, txRefs, chan,
                   localPort, attempt, announced, healthy>>
    /\ UNCHANGED <<log, probes>>

\* Lines 49-62: the server bundle is not among the resources.
StartResourceMissing(p) ==
    /\ pc[p] = "start_lock"
    /\ lock = None
    /\ ~AlreadyRunning
    /\ Return(p, Err("start", ERR_RESOURCE_MISSING))
    /\ UNCHANGED <<child, port, lock, spawned, killed, reader, portTx,
                   txRefs, chan, localPort, attempt, announced, healthy>>
    /\ UNCHANGED <<log, probes>>

\* Lines 65-76: creating or spawning the sidecar command fails.
StartSpawnFailed(p) ==
    /\ pc[p] = "start_lock"
    /\ lock = None
    /\ ~AlreadyRunning
    /\ Return(p, Err("start", ERR_SPAWN_FAILED))
    /\ UNCHANGED <<child, port, lock, spawned, killed, reader, portTx,
                   txRefs, chan, localPort, attempt, announced, healthy>>
    /\ UNCHANGED <<log, probes>>

\* Lines 65-117: the child is spawned, its handle stored, the one-shot
\* channel created with its Sender in an Arc cell held by start and by the
\* reader task, and the reader task started.  The guard stays held.
\* The reader of an earlier child can no longer deliver anything (its
\* receiver was dropped when its start returned), so only the reader of
\* the latest child is kept.
StartSpawn(p) ==
    /\ pc[p] = "start_lock"
    /\ lock = None
    /\ ~AlreadyRunning
    /\ spawned < MaxSpawns
    /\ lock' = Some(p)
    /\ spawned' = spawned + 1
    /\ child' = Some(spawned + 1)
    /\ reader' = [state |-> "running", n |-> 0, pend |-> None]
    /\ portTx' = "Some"
    /\ txRefs' = 2
    /\ chan' = None
    /\ announced' = {}
    /\ pc' = [pc EXCEPT ![p] = "start_await"]
    /\ UNCHANGED <<port, ret, killed, localPort, attempt, healthy>>
    /\ log' = <<>>
    /\ UNCHANGED probes

\* Variant of StartPortTimeout that gives the handle up when discovery
\* times out.
StartPortTimeoutClearsChild(p) ==
    /\ pc[p] = "start_await"
    /\ chan = None
    /\ ~SenderDropped
    /\ Return(p, Err("start", ERR_TIMEOUT))
    /\ lock' = None
    /\ txRefs' = txRefs - 1
    /\ child' = None
    /\ UNCHANGED <<port, spawned, killed, reader, portTx, chan,
                   localPort, attempt, announced, healthy>>
    /\ UNCHANGED <<log, probes>>

\* Lines 120-126, timeout branch: the timer expires while the channel holds
\* no value and its Sender is alive.  start returns, which drops the guard,
\* the receiver and start's Arc reference.
StartPortTimeout(p) ==
    /\ pc[p] = "start_await"
    /\ chan = None
    /\ ~SenderDropped
    /\ Return(p, Err("start", ERR_TIMEOUT))
    /\ lock' = None
    /\ txRefs' = txRefs - 1
    /\ UNCHANGED <<child, port, spawned, killed, reader, portTx, chan,
                   localPort, attempt, announced, healthy>>
    /\ UNCHANGED <<log, probes>>

\* Lines 120-132: the receiver resolves.  With a value, the port is stored
\* (line 129), wait_for_ready builds its client (lines 155-158) and enters
\* the loop with attempt = 1; with the Sender dropped unsent, start fails
\* (line 126).
StartRecvPort(p) ==
    /\ pc[p] = "start_await"
    /\ chan # None \/ SenderDropped
    /\ IF chan # None
       THEN /\ port' = chan
            /\ localPort' = chan
            /\ chan' = None
            /\ attempt' = 1
            /\ pc' = [pc EXCEPT ![p] = "start_health"]
            /\ UNCHANGED <<ret, lock, txRefs>>
       ELSE /\ Return(p, Err("start", ERR_RECV_FAILED))
            /\ lock' = None
            /\ txRefs' = txRefs - 1
            /\ UNCHANGED <<port, localPort, chan, attempt>>
    /\ UNCHANGED <<child, spawned, killed, reader, portTx, announced,
                   healthy>>
    /\ probes' = IF chan # None THEN [ok |-> 0, failed |-> 0] ELSE probes
    /\ UNCHANGED log

\* Lines 120-132 and 155-158: the receiver resolves with a value, the port
\* is stored (line 129), and the client of wait_for_ready cannot be built:
\* the error is returned through `?` (lines 158, 132) before any probe.
StartClientBuildFailed(p) ==
    /\ pc[p] = "start_await"
    /\ chan # None
    /\ port' = chan
    /\ chan' = None
    /\ Return(p, Err("start", ERR_CLIENT_BUILD))
    /\ lock' = None
    /\ txRefs' = txRefs - 1
    /\ UNCHANGED <<child, spawned, killed, reader, portTx, localPort,
                   attempt, announced, healthy>>
    /\ probes' = [ok |-> 0, failed |-> 0]
    /\ UNCHANGED log

\* wait_for_ready (lines 154-179), one iteration whose probe succeeds
\* (lines 164-167); start returns Ok(port) (line 135).
HealthProbeOkStep(p) ==
    /\ pc[p] = "start_health"
    /\ attempt <= HEALTH_CHECK_MAX_ATTEMPTS
    /\ healthy' = healthy \cup {Unwrap(child)}
    /\ Return(p, Ok("start", localPort))
    /\ lock' = None
    /\ txRefs' = txRefs - 1
    /\ localPort' = None
    /\ attempt' = 0
    /\ UNCHANGED <<child, port, spawned, killed, reader, portTx, chan,
                   announced>>
    /\ UNCHANGED log

\* The step as the supervisor runs it.
HealthProbeOk(p) == HealthProbeOkStep(p) /\ UNCHANGED probes

\* The same step, with the probe counted.
HealthProbeOkCounted(p) ==
    /\ HealthProbeOkStep(p)
    /\ probes' = [probes EXCEPT !.ok = @ + 1]

\* Variant of HealthProbeFailStep that starts the attempts over when the
\* ceiling is reached.
HealthProbeFailStepStartsOver(p) ==
    /\ pc[p] = "start_health"
    /\ attempt' = IF attempt < HEALTH_CHECK_MAX_ATTEMPTS
                  THEN attempt + 1 ELSE 1
    /\ UNCHANGED <<pc, ret, lock, txRefs, localPort>>
    /\ UNCHANGED <<child, port, spawned, killed, reader, portTx, chan,
                   announced, healthy>>
    /\ UNCHANGED log

\* Variant of HealthProbeFailStep whose loop runs one iteration too many.
HealthProbeFailStepOneMore(p) ==
    /\ pc[p] = "start_health"
    /\ attempt <= HEALTH_CHECK_MAX_ATTEMPTS + 1
    /\ attempt' = attempt + 1
    /\ UNCHANGED <<pc, ret, lock, txRefs, localPort>>
    /\ UNCHANGED <<child, port, spawned, killed, reader, portTx, chan,
                   announced, healthy>>
    /\ UNCHANGED log

\* wait_for_ready, one iteration whose probe fails (lines 162-171): the
\* task sleeps, after the last attempt as well, and the loop advances.
HealthProbeFailStep(p) ==
    /\ pc[p] = "start_health"
    /\ attempt <= HEALTH_CHECK_MAX_ATTEMPTS
    /\ attempt' = attempt + 1
    /\ UNCHANGED <<pc, ret, lock, txRefs, localPort>>
    /\ UNCHANGED <<child, port, spawned, killed, reader, portTx, chan,
                   announced, healthy>>
    /\ UNCHANGED log

\* The step as the supervisor runs it.
HealthProbeFail(p) == HealthProbeFailStep(p) /\ UNCHANGED probes

\* The same step, with the probe counted.
HealthProbeFailCounted(p) ==
    /\ HealthProbeFailStep(p)
    /\ probes' = [probes EXCEPT !.failed = @ + 1]

\* wait_for_ready, the loop is exhausted once the sleep that follows the
\* last failed probe is over: the error of lines 175-178, which start
\* propagates (line 132).
HealthExhausted(p) ==
    /\ pc[p] = "start_health"
    /\ attempt > HEALTH_CHECK_MAX_ATTEMPTS
    /\ Return(p, Err("start", ERR_HEALTH))
    /\ lock' = None
    /\ txRefs' = txRefs - 1
    /\ localPort' = None
    /\ attempt' = 0
    /\ UNCHANGED <<child, port, spawned, killed, reader, portTx, chan,
                   announced, healthy>>
    /\ UNCHANGED <<log, probes>>

\* ------------------------------------------------------------------------
\* stop (sidecar.rs:139-151).

\* A task calls stop and queues on the `child` mutex (line 140).
CallStop(p) ==
    /\ pc[p] = "idle"
    /\ pc' = [pc EXCEPT ![p] = "stop_lock"]
    /\ ret' = [ret EXCEPT ![p] = NoRet]
    /\ UNCHANGED <<child, port, lock, spawned, killed, reader, portTx,
                   txRefs, chan, localPort, attempt, announced, healthy>>
    /\ UNCHANGED <<log, probes>>

\* Variant of StopNoChild that clears the port cell on every path.
StopNoChildClearsPort(p) ==
    /\ pc[p] = "stop_lock"
    /\ lock = None
    /\ child = None
    /\ port' = None
    /\ Return(p, Ok("stop", None))
    /\ UNCHANGED <<child, lock, spawned, killed, reader, portTx,
                   txRefs, chan, localPort, attempt, announced, healthy>>
    /\ UNCHANGED <<log, probes>>

\* Lines 142, 150: no handle to take; Ok(()).
StopNoChild(p) ==
    /\ pc[p] = "stop_lock"
    /\ lock = None
    /\ child = None
    /\ Return(p, Ok("stop", None))
    /\ UNCHANGED <<child, port, lock, spawned, killed, reader, portTx,
                   txRefs, chan, localPort, attempt, announced, healthy>>
    /\ UNCHANGED <<log, probes>>

\* Variant of StopKillOk that does not wait for the `child` mutex.
StopKillOkWithoutLock(p) ==
    /\ pc[p] = "stop_lock"
    /\ child # None
    /\ child' = None
    /\ killed' = killed \cup {Unwrap(child)}
    /\ pc' = [pc EXCEPT ![p] = "stop_port"]
    /\ UNCHANGED <<port, lock, ret, spawned, reader, portTx, txRefs, chan,
                   localPort, attempt, announced, healthy>>
    /\ UNCHANGED <<log, probes>>

\* Variant of StopKillOk that signals the child through a borrowed handle
\* and leaves the handle in its cell.
StopKillOkKeepsHandle(p) ==
    /\ pc[p] = "stop_lock"
    /\ lock = None
    /\ child # None
    /\ killed' = killed \cup {Unwrap(child)}
    /\ lock' = Some(p)
    /\ pc' = [pc EXCEPT ![p] = "stop_port"]
    /\ UNCHANGED <<child, port, ret, spawned, reader, portTx, txRefs, chan,
                   localPort, attempt, announced, healthy>>
    /\ UNCHANGED <<log, probes>>

\* Lines 140-145: the guard is acquired, the handle taken and the kill
\* signal delivered; stop then queues on the `port` mutex (line 146) with
\* the guard still held.
StopKillOk(p) ==
    /\ pc[p] = "stop_lock"
    /\ lock = None
    /\ child # None
    /\ child' = None
    /\ killed' = killed \cup {Unwrap(child)}
    /\ lock' = Some(p)
    /\ pc' = [pc EXCEPT ![p] = "stop_port"]
    /\ UNCHANGED <<port, ret, spawned, reader, portTx, txRefs, chan,
                   localPort, attempt, announced, healthy>>
    /\ UNCHANGED <<log, probes>>

\* Lines 146-150: the port is cleared; Ok(()), which drops the guard.
StopClearPort(p) ==
    /\ pc[p] = "stop_port"
    /\ port' = None
    /\ lock' = None
    /\ Return(p, Ok("stop", None))
    /\ UNCHANGED <<child, spawned, killed, reader, portTx, txRefs, chan,
                   localPort, attempt, announced, healthy>>
    /\ UNCHANGED <<log, probes>>

\* Lines 142-145: the handle is taken, kill() fails and `?` returns the
\* error before line 146 is reached.
StopKillFailed(p) ==
    /\ pc[p] = "stop_lock"
    /\ lock = None
    /\ child # None
    /\ child' = None
    /\ Return(p, Err("stop", ERR_KILL))
    /\ UNCHANGED <<port, lock, spawned, killed, reader, portTx, txRefs,
                   chan, localPort, attempt, announced, healthy>>
    /\ UNCHANGED <<log, probes>>

\* ------------------------------------------------------------------------
\* Reader task (sidecar.rs:86-117).

\* CommandEvent::Stdout (lines 89-97): the line is received, printed and
\* matched; with a port parsed the task goes on to the mutex of the Sender
\* cell (line 98), where it may be sent back to the scheduler.
ReaderStdoutStep(line) ==
    /\ reader.state = "running"
    /\ reader.pend = None
    /\ reader.n < MaxEvents
    /\ LET parsed == ParsePortLine(line)
       IN  /\ reader' = [reader EXCEPT !.n = @ + 1, !.pend = parsed]
           /\ announced' = IF parsed = None THEN announced
                           ELSE announced \cup {Unwrap(parsed)}
    /\ UNCHANGED <<child, port, lock, pc, ret, spawned, killed, portTx,
                   txRefs, chan, localPort, attempt, healthy>>

\* The step as the supervisor runs it.
ReaderStdout(line) == ReaderStdoutStep(line) /\ UNCHANGED <<log, probes>>

\* The same step, with the event kept in the record of received events.
ReaderStdoutLogged(line) ==
    /\ ReaderStdoutStep(line)
    /\ log' = Append(log, [kind |-> "Stdout", line |-> line])
    /\ UNCHANGED probes

\* Variant of ReaderSend that sends through a Sender it keeps, once per
\* valid line.
ReaderSendEveryLine ==
    /\ reader.state = "running"
    /\ reader.pend # None
    /\ reader' = [reader EXCEPT !.pend = None]
    /\ chan' = IF RxAlive THEN reader.pend ELSE chan
    /\ UNCHANGED <<child, port, lock, pc, ret, spawned, killed, portTx,
                   txRefs, localPort, attempt, announced, healthy>>
    /\ UNCHANGED <<log, probes>>

\* Lines 98-99: with the mutex of the cell acquired, the Sender is taken
\* if it is still there and the port sent; send fails silently when the
\* receiver is gone.
ReaderSend ==
    /\ reader.state = "running"
    /\ reader.pend # None
    /\ reader' = [reader EXCEPT !.pend = None]
    /\ IF portTx = "Some"
       THEN /\ portTx' = "None"
            /\ chan' = IF RxAlive THEN reader.pend ELSE chan
       ELSE UNCHANGED <<portTx, chan>>
    /\ UNCHANGED <<child, port, lock, pc, ret, spawned, killed, txRefs,
                   localPort, attempt, announced, healthy>>
    /\ UNCHANGED <<log, probes>>

\* CommandEvent::Stderr, Error and the remaining variants (lines 104-109,
\* 114): logged only.
ReaderOtherStep(ev) ==
    /\ reader.state = "running"
    /\ reader.pend = None
    /\ reader.n < MaxEvents
    /\ reader' = [reader EXCEPT !.n = @ + 1]
    /\ UNCHANGED <<child, port, lock, pc, ret, spawned, killed, portTx,
                   txRefs, chan, localPort, attempt, announced, healthy>>

\* The step as the supervisor runs it.
ReaderOther(ev) == ReaderOtherStep(ev) /\ UNCHANGED <<log, probes>>

\* The same step, with the event kept in the record of received events.
ReaderOtherLogged(ev) ==
    /\ ReaderOtherStep(ev)
    /\ log' = Append(log, [kind |-> ev, line |-> <<>>])
    /\ UNCHANGED probes

\* Variant of ReaderEnd in which the reader task resets the supervisor when
\* the child terminates and no call holds the lock.
ReaderEndClearsState ==
    /\ reader.state = "running"
    /\ reader.pend = None
    /\ reader' = [reader EXCEPT !.state = "ended"]
    /\ txRefs' = txRefs - 1
    /\ child' = IF lock = None THEN None ELSE child
    /\ port' = IF lock = None THEN None ELSE port
    /\ UNCHANGED <<lock, pc, ret, spawned, killed, portTx,
                   chan, localPort, attempt, announced, healthy>>
    /\ UNCHANGED <<log, probes>>

\* CommandEvent::Terminated (lines 110-113) or the end of the event stream
\* (line 89): the task ends and drops its Arc reference.
ReaderEnd ==
    /\ reader.state = "running"
    /\ reader.pend = None
    /\ reader' = [reader EXCEPT !.state = "ended"]
    /\ txRefs' = txRefs - 1
    /\ UNCHANGED <<child, port, lock, pc, ret, spawned, killed, portTx,
                   chan, localPort, attempt, announced, healthy>>
    /\ UNCHANGED <<log, probes>>

\* ------------------------------------------------------------------------
Next ==
    \/ \E p \in Procs : CallGetPort(p)
    \/ \E p \in Procs : GetPort(p)
    \/ \E p \in Procs : CallStart(p)
    \/ \E p \in Procs : StartExisting(p)
    \/ \E p \in Procs : StartExistingReturn(p)
    \/ \E p \in Procs : StartResourceMissing(p)
    \/ \E p \in Procs : StartSpawnFailed(p)
    \/ \E p \in Procs : StartSpawn(p)
    \/ \E p \in Procs : StartPortTimeout(p)
    \/ \E p \in Procs : StartRecvPort(p)
    \/ \E p \in Procs : StartClientBuildFailed(p)
    \/ \E p \in Procs : HealthProbeOk(p)
    \/ \E p \in Procs : HealthProbeFail(p)
    \/ \E p \in Procs : HealthExhausted(p)
    \/ \E p \in Procs : CallStop(p)
    \/ \E p \in Procs : StopNoChild(p)
    \/ \E p \in Procs : StopKillOk(p)
    \/ \E p \in Procs : StopClearPort(p)
    \/ \E p \in Procs : StopKillFailed(p)
    \/ \E line \in Lines : ReaderStdout(line)
    \/ ReaderSend
    \/ \E ev \in OtherEvents : ReaderOther(ev)
    \/ ReaderEnd

Spec == Init /\ [][Next]_vars

TypeOK ==
    /\ child \in {None} \cup {Some(c) : c \in 1..MaxSpawns}
    /\ port = None \/ (Len(port) = 1 /\ Unwrap(port) \in 0..U16_MAX)
    /\ lock \in {None} \cup {Some(p) : p \in Procs}
    /\ spawned \in 0..MaxSpawns
    /\ killed \subseteq 1..MaxSpawns
    /\ txRefs \in 0..2
    /\ attempt \in 0..(HEALTH_CHECK_MAX_ATTEMPTS + 1)

\* ------------------------------------------------------------------------
\* Two tasks that each call start once on a fresh supervisor, and nothing
\* else (the launch-time start racing a second start).
CallStartOnce(p) == ret[p] = NoRet /\ CallStart(p)

NextTwoStarts ==
    \/ \E p \in Procs : CallStartOnce(p)
    \/ \E p \in Procs : StartExisting(p)
    \/ \E p \in Procs : StartExistingReturn(p)
    \/ \E p \in Procs : StartResourceMissing(p)
    \/ \E p \in Procs : StartSpawnFailed(p)
    \/ \E p \in Procs : StartSpawn(p)
    \/ \E p \in Procs : StartPortTimeout(p)
    \/ \E p \in Procs : StartRecvPort(p)
    \/ \E p \in Procs : StartClientBuildFailed(p)
    \/ \E p \in Procs : HealthProbeOk(p)
    \/ \E p \in Procs : HealthProbeFail(p)
    \/ \E p \in Procs : HealthExhausted(p)
    \/ \E line \in Lines : ReaderStdout(line)
    \/ ReaderSend
    \/ \E ev \in OtherEvents : ReaderOther(ev)
    \/ ReaderEnd

SpecTwoStarts == Init /\ [][NextTwoStarts]_vars

\* ------------------------------------------------------------------------
\* Steps in which a call returns.
StartReturns(p) ==
    /\ pc[p] \in {"start_lock", "start_port", "start_await", "start_health"}
    /\ pc'[p] = "idle"

StopReturns(p) == pc[p] \in {"stop_lock", "stop_port"} /\ pc'[p] = "idle"

GetPortReturns(p) == pc[p] = "get_port" /\ pc'[p] = "idle"

BothStartsDone == \A p \in Procs : pc[p] = "idle" /\ ret[p].op = "start"

\* ------------------------------------------------------------------------
\* C1: a child is spawned only in a step that begins with no handle held,
\* and that step stores the new handle; a start that takes the mutex and
\* finds a handle held goes on to read the port cell without spawning, and
\* from there it only returns, the handle and the count of spawns staying
\* as they are while it holds the mutex.
C1_NoSpawnWhileChildHeld ==
    [][ /\ spawned' # spawned =>
             (child = None /\ spawned' = spawned + 1
              /\ child' = Some(spawned'))
        /\ \A p \in Procs :
             (pc[p] = "start_lock" /\ pc'[p] # "start_lock" /\ child # None)
             => (/\ spawned' = spawned
                 /\ child' = child
                 /\ pc'[p] = "start_port")
        /\ \A p \in Procs :
             pc[p] = "start_port"
             => (/\ child # None
                 /\ spawned' = spawned
                 /\ child' = child
                 /\ pc'[p] \in {"start_port", "idle"})
      ]_vars

\* C1 witness: both tasks have returned Ok from start and one child was
\* spawned, so one of the two starts found the handle held.
C1_Witness ==
    /\ spawned = 1
    /\ child = Some(1)
    /\ \A p \in Procs : ret[p].op = "start" /\ ret[p].ok /\ pc[p] = "idle"

\* C2 as stated: once both concurrent starts have returned, exactly one
\* child has been spawned and both calls returned the same port.
C2_ExactlyOneSpawnSamePort ==
    BothStartsDone =>
        /\ spawned = 1
        /\ \A p \in Procs : ret[p].ok /\ ret[p].val = port

\* C2 amended: once both concurrent starts have returned, at most one
\* child has been spawned, exactly one if either call returned a port, and
\* if both calls returned a port it is the same port.
C2_AtMostOneSpawnSamePort ==
    BothStartsDone =>
        /\ spawned <= 1
        /\ (\E p \in Procs : ret[p].ok) => spawned = 1
        /\ \A p, q \in Procs :
             (ret[p].ok /\ ret[q].ok) => ret[p].val = ret[q].val

\* C2 witness: both concurrent starts returned the port of the one child.
C2_Witness ==
    /\ BothStartsDone
    /\ spawned = 1
    /\ port # None
    /\ \A p \in Procs : ret[p] = Ok("start", port)

\* C3: a start that returns Ok(v) does so with a child held that has
\* answered a health probe successfully, v being the recorded port.
C3_StartOkOnlyAfterHealthCheck ==
    [][ \A p \in Procs :
          (StartReturns(p) /\ ret'[p].ok)
          => (/\ child' # None
              /\ Unwrap(child') \in healthy'
              /\ ret'[p].val = port')
      ]_vars

\* C4: whenever a port is recorded a child handle is held.
C4_PortImpliesChild == port # None => child # None

\* C5: whenever a port is recorded for a held child, that child has
\* answered a health probe successfully.
C5_PortImpliesHealthChecked ==
    (port # None /\ child # None) => Unwrap(child) \in healthy

\* C6: a stop that returns Ok leaves both child and port None.
C6_StopOkClearsState ==
    [][ \A p \in Procs :
          (StopReturns(p) /\ ret'[p].ok) => (child' = None /\ port' = None)
      ]_vars

\* C7: a stop that holds a child and whose kill fails returns the error
\* and leaves both child and port None.
C7_StopFailedClearsState ==
    [][ \A p \in Procs :
          (StopReturns(p) /\ child # None /\ ~ret'[p].ok)
          => (ret'[p].err = ERR_KILL /\ child' = None /\ port' = None)
      ]_vars

\* C8: a stop that finds no child held returns Ok, sends no signal and
\* leaves child and port as they were.
C8_StopWithoutChildIsNoOp ==
    [][ \A p \in Procs :
          (pc[p] = "stop_lock" /\ pc'[p] # "stop_lock" /\ child = None)
          => (/\ pc'[p] = "idle"
              /\ ret'[p] = Ok("stop", None)
              /\ killed' = killed
              /\ child' = child
              /\ port' = port)
      ]_vars

\* C8 witness: stop has returned Ok on a supervisor that never spawned a
\* child, and the state is None/None.
C8_Witness ==
    /\ spawned = 0
    /\ \E p \in Procs : ret[p] = Ok("stop", None) /\ pc[p] = "idle"
    /\ child = None
    /\ port = None

\* C9: when get_port returns Some(v), a child is held that has printed a
\* valid sentinel line announcing v; while a child is held that has not
\* printed one, get_port returns None.
C9_GetPortOnlyAnnounced ==
    [][ \A p \in Procs :
          GetPortReturns(p)
          => (/\ ret'[p].val # None =>
                   (child # None /\ Unwrap(ret'[p].val) \in announced)
              /\ (child # None /\ announced = {}) => ret'[p].val = None)
      ]_vars

\* C10: a start that spawned a child and returns while the child has
\* printed no valid sentinel line returns the discovery-timeout error, and
\* no port is recorded when it returns.
C10_TimeoutLeavesNoPort ==
    [][ \A p \in Procs :
          (pc[p] = "start_await" /\ pc'[p] = "idle" /\ announced = {})
          => (ret'[p] = Err("start", ERR_TIMEOUT) /\ port' = None)
      ]_vars

\* ------------------------------------------------------------------------
\* C11: a start that fails after spawning sends no kill and keeps the
\* handle; the handle is given up only in a step of a stop that held the
\* mutex alone;
\* a start that finds the handle held spawns nothing, reads the port cell
\* under the mutex and returns the recorded port, or the "port unknown"
\* error when none is recorded.
C11_FailedStartKeepsChild ==
    [][ /\ \A p \in Procs :
             (pc[p] \in {"start_await", "start_health"}
              /\ pc'[p] = "idle" /\ ~ret'[p].ok)
             => (/\ child # None
                 /\ child' = child
                 /\ killed' = killed
                 /\ ret'[p].err \in {ERR_TIMEOUT, ERR_RECV_FAILED,
                                     ERR_CLIENT_BUILD, ERR_HEALTH})
        /\ (child # None /\ child' = None)
             => \E q \in Procs :
                  pc[q] = "stop_lock" /\ pc'[q] # "stop_lock"
        /\ \A p \in Procs :
             (pc[p] = "start_lock" /\ pc'[p] # "start_lock"
              /\ child # None)
             => (/\ spawned' = spawned
                 /\ child' = child
                 /\ port' = port
                 /\ pc'[p] = "start_port")
        /\ \A p \in Procs :
             pc[p] = "start_port"
             => (/\ spawned' = spawned
                 /\ child' = child
                 /\ port' = port
                 /\ killed' = killed
                 /\ pc'[p] # "start_port" =>
                      (/\ pc'[p] = "idle"
                       /\ ret'[p] = IF port = None
                                    THEN Err("start", ERR_PORT_UNKNOWN)
                                    ELSE Ok("start", port)))
      ]_vars

\* C11 witness: a start timed out after spawning, a further start returned
\* the "port unknown" error, and the child is still held and unsignalled.
C11_Witness ==
    /\ child = Some(1)
    /\ spawned = 1
    /\ killed = {}
    /\ port = None
    /\ \E p, q \in Procs :
         /\ ret[p] = Err("start", ERR_TIMEOUT)
         /\ ret[q] = Err("start", ERR_PORT_UNKNOWN)

\* C12: when the reader task has ended without publishing a port, the
\* one-shot channel is dropped and the waiting start returns the
\* "Failed to receive port from server" error.
C12_ReaderEndYieldsRecvFailed ==
    [][ \A p \in Procs :
          (pc[p] = "start_await" /\ reader.state = "ended"
           /\ portTx = "Some" /\ pc'[p] = "idle")
          => (SenderDropped /\ ret'[p] = Err("start", ERR_RECV_FAILED))
      ]_vars

\* C13: a stop that signals the held child leaves child and port None; a
\* start that then takes the mutex does not return a port from the cell:
\* it fails before spawning or spawns a child with a fresh id and a fresh
\* channel; and a start that spawned returns Ok only with a port that its
\* own child announced, which is then the recorded port.
C13_RestartSpawnsNewChild ==
    [][ \A p \in Procs :
          /\ (StopReturns(p) /\ ret'[p].ok /\ child # None)
               => (child' = None /\ port' = None)
          /\ (pc[p] = "start_lock" /\ pc'[p] # "start_lock"
              /\ child = None /\ port = None /\ spawned >= 1)
               => (/\ ~(pc'[p] = "idle" /\ ret'[p].ok)
                   /\ pc'[p] = "start_await" =>
                        (/\ spawned' = spawned + 1
                         /\ child' = Some(spawned + 1)
                         /\ Unwrap(child') \notin killed'
                         /\ chan' = None
                         /\ port' = None))
          /\ (pc[p] = "start_health" /\ pc'[p] = "idle" /\ ret'[p].ok)
               => (/\ child = Some(spawned)
                   /\ Unwrap(ret'[p].val) \in announced
                   /\ ret'[p].val = port')
      ]_vars

\* C13 witness: the first child served port 31822 and was stopped; the
\* start after the stop spawned a second child and returned its port 8080.
C13_Witness ==
    /\ spawned = 2
    /\ killed = {1}
    /\ child = Some(2)
    /\ port = Some(8080)
    /\ \E p, q \in Procs :
         /\ ret[p] = Ok("start", Some(31822))
         /\ ret[q] = Ok("start", Some(8080))

\* ------------------------------------------------------------------------
\* The reader seen from its input: one task calls start once, the child's
\* events are recorded in `log`.
NextReader ==
    \/ CallStartOnce("t1")
    \/ StartSpawn("t1")
    \/ StartPortTimeout("t1")
    \/ StartRecvPort("t1")
    \/ StartClientBuildFailed("t1")
    \/ HealthProbeOk("t1")
    \/ HealthProbeFail("t1")
    \/ HealthExhausted("t1")
    \/ \E line \in Lines : ReaderStdoutLogged(line)
    \/ ReaderSend
    \/ \E ev \in OtherEvents : ReaderOtherLogged(ev)
    \/ ReaderEnd

SpecReader == Init /\ [][NextReader]_vars

\* The sentinel protocol read off a line, without the parser: the text
\* after the prefix, between its first and last non-blank character, is
\* an optional "+" and one or more decimal digits whose positional value
\* fits in 16 bits.
RECURSIVE Pow10(_)
Pow10(n) == IF n = 0 THEN 1 ELSE 10 * Pow10(n - 1)

RECURSIVE PositionalValue(_, _)
PositionalValue(s, i) ==
    IF i > Len(s) THEN 0
    ELSE DigitVal[s[i]] * Pow10(Len(s) - i) + PositionalValue(s, i + 1)

SentinelValue(line) ==
    IF \/ Len(line) < Len(PORT_PREFIX)
       \/ \E i \in 1..Len(PORT_PREFIX) : line[i] # PORT_PREFIX[i]
    THEN None
    ELSE LET nonBlank == {i \in (Len(PORT_PREFIX) + 1)..Len(line) :
                             line[i] \notin Whitespace}
         IN  IF nonBlank = {} THEN None
             ELSE LET lo == CHOOSE i \in nonBlank :
                                \A j \in nonBlank : i <= j
                      hi == CHOOSE i \in nonBlank :
                                \A j \in nonBlank : j <= i
                      from == IF line[lo] = "+" THEN lo + 1 ELSE lo
                      digits == [k \in 1..(hi - from + 1) |->
                                    line[from + k - 1]]
                  IN  IF /\ from <= hi
                         /\ \A k \in 1..Len(digits) :
                               digits[k] \in DOMAIN DigitVal
                         /\ PositionalValue(digits, 1) <= U16_MAX
                      THEN Some(PositionalValue(digits, 1))
                      ELSE None

\* The value of the first standard-output event of the record that is a
\* valid sentinel line.
FirstAnnouncement(events) ==
    LET valid == {i \in 1..Len(events) :
                     /\ events[i].kind = "Stdout"
                     /\ SentinelValue(events[i].line) # None}
    IN  IF valid = {} THEN None
        ELSE SentinelValue(
                 events[CHOOSE i \in valid : \A j \in valid : i <= j].line)

\* C14: the port in the channel, the port received by start, the port
\* recorded and the port returned are the value of the first valid
\* sentinel line on standard output; the port the reader is about to send
\* is the value of the line it received last; while start waits and the
\* channel is empty, either no event received so far is a valid sentinel
\* line or the reader is about to send the value of the first one.
C14_FirstValidSentinelDelivered ==
    /\ chan # None => chan = FirstAnnouncement(log)
    /\ localPort # None => localPort = FirstAnnouncement(log)
    /\ port # None => port = FirstAnnouncement(log)
    /\ \A p \in Procs :
         (ret[p].op = "start" /\ ret[p].ok)
         => ret[p].val = FirstAnnouncement(log)
    /\ reader.pend # None =>
         (/\ log # <<>>
          /\ log[Len(log)].kind = "Stdout"
          /\ reader.pend = SentinelValue(log[Len(log)].line))
    /\ (RxAlive /\ chan = None) =>
         \/ FirstAnnouncement(log) = None
         \/ reader.pend = FirstAnnouncement(log)

\* C14 witness: a malformed sentinel line was skipped, then the line
\* announcing 31822 was received, and start returned 31822.
C14_Witness ==
    /\ Len(log) = 2
    /\ log[1] = [kind |-> "Stdout",
                 line |-> PORT_PREFIX
                          \o <<"n","o","t","a","n","u","m","b","e","r">>]
    /\ log[2] = [kind |-> "Stdout",
                 line |-> PORT_PREFIX \o <<"3","1","8","2","2">>]
    /\ ret["t1"] = Ok("start", Some(31822))

\* ------------------------------------------------------------------------
\* The poller seen from its probes: one task calls start once and every
\* probe is counted by outcome in `probes`.
NextHealth ==
    \/ CallStartOnce("t1")
    \/ StartSpawn("t1")
    \/ StartPortTimeout("t1")
    \/ StartRecvPort("t1")
    \/ StartClientBuildFailed("t1")
    \/ HealthProbeOkCounted("t1")
    \/ HealthProbeFailCounted("t1")
    \/ HealthExhausted("t1")
    \/ \E line \in Lines : ReaderStdout(line)
    \/ ReaderSend
    \/ ReaderEnd

SpecHealth == Init /\ [][NextHealth]_vars

\* C15 as stated, in its last clause: a poller that returns without a
\* successful probe has issued exactly 50 probes, all of them failed.
C15_PollerFailsOnlyAfterAllProbes ==
    (ret["t1"].op = "start" /\ ~ret["t1"].ok /\ port # None)
    => probes = [ok |-> 0, failed |-> HEALTH_CHECK_MAX_ATTEMPTS]

\* C15 amended: once the client of the poller is built, the k-th probe
\* succeeds only after exactly k-1 failed probes, with
\* k <= 50, and start returns Ok in that step; the poller gives the
\* health-check error only when 50 probes have failed and none succeeded,
\* and once 50 have failed that error is all it returns; once a probe has
\* succeeded or 50 have failed, no further probe is issued; a poller whose
\* client cannot be built returns that error and has issued no probe.
C15_PollerProbeCount ==
    /\ [](/\ probes.ok <= 1
          /\ probes.failed <= HEALTH_CHECK_MAX_ATTEMPTS
          /\ probes.ok = 1 =>
               (/\ probes.failed <= HEALTH_CHECK_MAX_ATTEMPTS - 1
                /\ pc["t1"] = "idle"
                /\ ret["t1"].op = "start" /\ ret["t1"].ok)
          /\ (ret["t1"].op = "start" /\ ret["t1"].ok) => probes.ok = 1
          /\ ret["t1"] = Err("start", ERR_HEALTH) =>
               (probes.failed = HEALTH_CHECK_MAX_ATTEMPTS /\ probes.ok = 0)
          /\ probes.failed = HEALTH_CHECK_MAX_ATTEMPTS =>
               (/\ probes.ok = 0
                /\ \/ ret["t1"] = Err("start", ERR_HEALTH)
                   \/ pc["t1"] = "start_health")
          /\ ret["t1"] = Err("start", ERR_CLIENT_BUILD) =>
               probes = [ok |-> 0, failed |-> 0]
          /\ pc["t1"] = "start_health" =>
               (probes.ok = 0 /\ probes.failed = attempt - 1))
    /\ [][ /\ probes'.ok # probes.ok =>
                (/\ probes'.failed = probes.failed
                 /\ probes.failed = attempt - 1
                 /\ pc'["t1"] = "idle"
                 /\ ret'["t1"] = Ok("start", localPort))
           /\ (probes.ok = 1 \/ probes.failed = HEALTH_CHECK_MAX_ATTEMPTS)
                => probes' = probes
           /\ (probes.failed = HEALTH_CHECK_MAX_ATTEMPTS
               /\ pc'["t1"] # pc["t1"])
                => ret'["t1"] = Err("start", ERR_HEALTH)
         ]_vars

\* C15 witness: the poll that succeeded at its 5th probe, after exactly 4
\* failed probes.
C15_Witness ==
    /\ probes = [ok |-> 1, failed |-> 4]
    /\ ret["t1"].op = "start"
    /\ ret["t1"].ok

\* ------------------------------------------------------------------------
\* C16: a start that returns the missing-bundle error found no handle
\* held, spawned nothing, signalled nothing, left child and port as they
\* were and released the mutex, so the next start to take the mutex goes
\* past the check of the handle again.
C16_ResourceMissingLeavesIdle ==
    [][ \A p \in Procs :
          (StartReturns(p) /\ ret'[p].err = ERR_RESOURCE_MISSING)
          => (/\ ~ret'[p].ok
              /\ child = None
              /\ child' = None
              /\ port' = port
              /\ spawned' = spawned
              /\ killed' = killed
              /\ reader' = reader
              /\ lock' = None
              /\ ~AlreadyRunning')
      ]_vars

\* C16 witness: a start returned the missing-bundle error on a supervisor
\* that had spawned nothing, and a later start has spawned the child.
C16_Witness ==
    \E p, q \in Procs :
      /\ ret[p] = Err("start", ERR_RESOURCE_MISSING)
      /\ pc[q] = "start_await"
      /\ spawned = 1
      /\ child = Some(1)

\* ------------------------------------------------------------------------
\* Application launch and exit (lib.rs:32-40, 82-93): task t1 is the
\* launch-time task that calls start once, task t2 the task spawned on
\* WindowEvent::Destroyed that calls stop once.
LaunchStart == CallStartOnce("t1")

WindowDestroyedStop == ret["t2"] = NoRet /\ CallStop("t2")

NextExit ==
    \/ LaunchStart
    \/ WindowDestroyedStop
    \/ StartResourceMissing("t1")
    \/ StartSpawnFailed("t1")
    \/ StartSpawn("t1")
    \/ StartPortTimeout("t1")
    \/ StartRecvPort("t1")
    \/ StartClientBuildFailed("t1")
    \/ HealthProbeOk("t1")
    \/ HealthProbeFail("t1")
    \/ HealthExhausted("t1")
    \/ StopNoChild("t2")
    \/ StopKillOk("t2")
    \/ StopClearPort("t2")
    \/ StopKillFailed("t2")
    \/ \E line \in Lines : ReaderStdout(line)
    \/ ReaderSend
    \/ \E ev \in OtherEvents : ReaderOther(ev)
    \/ ReaderEnd

SpecExit == Init /\ [][NextExit]_vars

BothTasksFinished ==
    /\ pc["t1"] = "idle" /\ ret["t1"].op = "start"
    /\ pc["t2"] = "idle" /\ ret["t2"].op = "stop"

\* C17: once the launch-time start task and the window-destroyed stop task
\* have both finished, no child handle is held and every child that was
\* spawned has been sent the kill signal.
C17_ExitTearsDownSidecar ==
    BothTasksFinished => (child = None /\ killed = 1..spawned)

\* ------------------------------------------------------------------------
\* C18: a value enters the one-shot channel only in the step that takes
\* the Sender out of its cell, and the cell is never refilled for the same
\* child; a value in the channel is not replaced; the value start received
\* stays the same while it polls; and after the port of the held child has
\* been recorded it stays the same for as long as that child is held.
C18_PortPublishedOnce ==
    [][ /\ (chan' # chan /\ chan' # None)
             => (chan = None /\ portTx = "Some" /\ portTx' = "None")
        /\ (portTx = "None" /\ spawned' = spawned) => portTx' = "None"
        /\ chan # None => chan' \in {chan, None}
        /\ (localPort # None /\ localPort' # None) => localPort' = localPort
        /\ (localPort # None /\ localPort' = None)
             => \E p \in Procs : StartReturns(p)
        /\ (port # None /\ child # None /\ child' = child /\ ~RxAlive)
             => port' = port
        /\ \A p \in Procs :
             (pc[p] = "start_await" /\ pc'[p] = "start_health")
             => (port' = chan /\ localPort' = chan)
      ]_vars

\* C18 witness: the child announced 31822 and then 8080; start received,
\* recorded and returned 31822.
C18_Witness ==
    /\ announced = {31822, 8080}
    /\ child = Some(1)
    /\ port = Some(31822)
    /\ \E p \in Procs : ret[p] = Ok("start", Some(31822))

\* ------------------------------------------------------------------------
\* C19: the mutex is held exactly by a start past its spawn, by a start
\* that found the handle and reads the port cell, or by a stop past its
\* kill; while a start holds it no stop acts, the handle stays,
\* no child is signalled and the port cell is written only by that start
\* recording the port it received; while a stop holds it no start acts and
\* nothing is spawned; and a port is recorded only for a held, unsignalled
\* child.
C19_StopWaitsForStart ==
    [][ /\ \A p \in Procs :
             lock = Some(p)
             <=> pc[p] \in {"start_port", "start_await", "start_health",
                            "stop_port"}
        /\ \A p \in Procs :
             pc[p] \in {"start_port", "start_await", "start_health"} =>
               (/\ child # None
                /\ child' = child
                /\ killed' = killed
                /\ \A q \in Procs :
                     pc[q] \in {"stop_lock", "stop_port"} => pc'[q] = pc[q]
                /\ port' # port =>
                     (/\ pc[p] = "start_await"
                      /\ pc'[p] # "start_await"
                      /\ port' = chan))
        /\ \A p \in Procs :
             pc[p] = "stop_port" =>
               (/\ spawned' = spawned
                /\ child' = child
                /\ \A q \in Procs :
                     pc[q] = "start_lock" => pc'[q] = "start_lock")
        /\ \A p \in Procs :
             (pc[p] = "start_await" /\ pc'[p] # "start_await"
              /\ chan # None)
             => (/\ port' = chan
                 /\ child' = Some(spawned)
                 /\ spawned \notin killed')
      ]_vars

\* C19 witness: a stop is waiting for the mutex while a start polls the
\* health endpoint; the child is held, unsignalled, and its port recorded.
C19_Witness ==
    \E p, q \in Procs :
      /\ pc[p] = "start_health"
      /\ pc[q] = "stop_lock"
      /\ child = Some(spawned)
      /\ spawned \notin killed
      /\ port = localPort
      /\ port # None

\* ------------------------------------------------------------------------
\* Progress.  The mutex of tokio is fair (first in, first out), so a task
\* waiting for it is not passed over for ever; the `port` mutex is held
\* for one read or write only, so a task queued on it gets it; the
\* discovery timer expires
\* unless the port arrives first; every probe completes within its
\* request timeout.  Nothing is assumed of the child or of the callers.
Fairness ==
    \A p \in Procs :
      /\ SF_vars(\/ StartExisting(p) \/ StartResourceMissing(p)
                 \/ StartSpawnFailed(p) \/ StartSpawn(p))
      /\ SF_vars(StopNoChild(p) \/ StopKillOk(p) \/ StopKillFailed(p))
      /\ WF_vars(StartExistingReturn(p))
      /\ WF_vars(StopClearPort(p))
      /\ WF_vars(\/ StartPortTimeout(p) \/ StartRecvPort(p)
                 \/ StartClientBuildFailed(p))
      /\ WF_vars(\/ HealthProbeOk(p) \/ HealthProbeFail(p)
                 \/ HealthExhausted(p))

\* Each task makes one call, of start or of stop.
CallStopOnce(p) == ret[p] = NoRet /\ CallStop(p)

NextLive ==
    \/ \E p \in Procs : CallStartOnce(p)
    \/ \E p \in Procs : CallStopOnce(p)
    \/ \E p \in Procs : StartExisting(p)
    \/ \E p \in Procs : StartExistingReturn(p)
    \/ \E p \in Procs : StartResourceMissing(p)
    \/ \E p \in Procs : StartSpawnFailed(p)
    \/ \E p \in Procs : StartSpawn(p)
    \/ \E p \in Procs : StartPortTimeout(p)
    \/ \E p \in Procs : StartRecvPort(p)
    \/ \E p \in Procs : StartClientBuildFailed(p)
    \/ \E p \in Procs : HealthProbeOk(p)
    \/ \E p \in Procs : HealthProbeFail(p)
    \/ \E p \in Procs : HealthExhausted(p)
    \/ \E p \in Procs : StopNoChild(p)
    \/ \E p \in Procs : StopKillOk(p)
    \/ \E p \in Procs : StopClearPort(p)
    \/ \E p \in Procs : StopKillFailed(p)
    \/ \E line \in Lines : ReaderStdout(line)
    \/ ReaderSend
    \/ \E ev \in OtherEvents : ReaderOther(ev)
    \/ ReaderEnd

SpecLive == Init /\ [][NextLive]_vars /\ Fairness

\* C20: every call of start or stop that a task is in eventually returns.
C20_EveryCallReturns ==
    \A p \in Procs : (pc[p] # "idle") ~> (pc[p] = "idle")

\* C20 witness: a start is at its last probe while a stop waits for the
\* mutex behind it.
C20_Witness ==
    \E p, q \in Procs :
      /\ pc[p] = "start_health"
      /\ attempt = HEALTH_CHECK_MAX_ATTEMPTS
      /\ pc[q] = "stop_lock"

\* ------------------------------------------------------------------------
\* The held child is one whose start succeeded.
StartSucceeded == child # None /\ Unwrap(child) \in healthy

\* The reader task of the held child has seen its termination.
ChildTerminated == StartSucceeded /\ reader.state = "ended"

\* C21: when the child of a successful start terminates on its own, the end
\* of the reader task changes neither child nor port; from then on, as long
\* as no stop has taken the handle, the port stays as it is, get_port
\* returns it, and every start that takes the mutex finds the handle,
\* reads the port cell and returns that port, without a spawn and without
\* entering the wait for the port or the health check.
C21_TerminatedChildKeepsState ==
    [][ /\ (StartSucceeded /\ reader.state = "running"
              /\ reader'.state = "ended")
           => (child' = child /\ port' = port /\ port # None)
        /\ ChildTerminated =>
             /\ port # None
             /\ child' = child => port' = port
             /\ spawned' = spawned
             /\ \A p \in Procs :
                  /\ GetPortReturns(p) => ret'[p] = Ok("get_port", port)
                  /\ (pc[p] = "start_lock" /\ pc'[p] # "start_lock")
                       => pc'[p] = "start_port"
                  /\ StartReturns(p) =>
                       /\ pc[p] = "start_port"
                       /\ ret'[p] = Ok("start", port)
                  /\ pc'[p] \notin {"start_await", "start_health"}
      ]_vars

\* C21 witness: the child of the one successful start has terminated; one
\* task holds the port that start gave, and the start of the other task
\* has found the handle and reads the port cell under the mutex.
C21_Witness ==
    \E p, q \in Procs :
      /\ ChildTerminated
      /\ spawned = 1
      /\ lock = Some(p)
      /\ pc[p] = "start_port"
      /\ ret[q] = Ok("start", port)

====
